---- MODULE Spec2Model ----
(***************************************************************************)
(* The button-gesture engine and key-injection scheduler of the two        *)
(* mapper programs of the repository:                                      *)
(*   prog = "mapper" : src/moza_buttons_mapper.py, run(learn_mode=False)   *)
(*   prog = "combo"  : src/unnamed/part_000 (moza_ac_music_combo), main_loop*)
(* One loop iteration is: sample now (and, in the combo loop, in_game),    *)
(* handle the drained events in order, run the tick phase, clock.tick.     *)
(* The model is always inside the event loop of an iteration: Down and Up  *)
(* handle one drained event, Ticks runs the tick phase, ends the iteration *)
(* and samples now / in_game of the next one.                              *)
(* The Permission Gate (allowed_to_send) reads the foreground window, which*)
(* the user changes at any moment: every evaluation is a free boolean.     *)
(***************************************************************************)
EXTENDS Integers, Sequences, FiniteSets, TLC

VARIABLES
    prog,        \* which program runs: "mapper" | "combo"
    now,         \* the iteration's timestamp (ms)
    in_game,     \* combo: the gate answer sampled at the top of the iteration
    states,      \* button index -> ButtonState
    pressed,     \* the PressedSet
    last_down_ms,\* combo: button -> timestamp of the last accepted press, 0 if none
    phys,        \* environment: the buttons physically held down
    out,         \* history: what the last handler did (gate answers, key events, sleeps, commands)
    last,        \* history: the last step taken
    acc,         \* history: buttons whose current physical press was accepted by the engine
    cyc,         \* history: button -> key events injected for it since its last accepted press
    units,       \* history: button -> repeat units fired since its last accepted press
    comboUsed,   \* history: buttons of which the current press took part in a combo
    presses,     \* history: how many JOYBUTTONDOWN events have been drained
    denials,     \* history: how many gate evaluations have answered false
    running      \* the process is inside its event loop

vars == <<prog, now, in_game, states, pressed, last_down_ms, phys,
          out, last, acc, cyc, units, comboUsed, presses, denials, running>>

----------------------------------------------------------------------------
(* Bounds of the model *)

T0 == 1000          \* the first iteration's timestamp (the code reads epoch milliseconds)
Horizon == 330      \* the run is followed for this many milliseconds
MaxPresses == 2     \* the driver presses a button at most this many times in a run
MaxDenials == 1     \* the gate answers false at most this many times in a run

MaxNow == T0 + Horizon
\* the time between the samplings of two consecutive iterations
Deltas == {80, 250}
\* the buttons of the wheel that the model follows (0-based indices)
Buttons == {0, 3, 7, 9, 10, 11, 12, 17, 18, 21}
\* the buttons the driver uses together in one run
Groups == {{0, 3, 7}, {9}, {10}, {12}, {17}, {18}, {11, 21}}

----------------------------------------------------------------------------
(* Settings of the programs *)

LONG_PRESS_MS == 250
DEBOUNCE_MS == 120
PULSE_ON_MS == 30
PULSE_GAP_MS == 35
PULSE_PERIOD_MS == 90
LIGHT_BTN_LABEL == 18
MODIFIER_BTN_LABEL == 1
MOD2_BTN_IDX == 3
BTN_PLAY_PAUSE == 0
BTN_NEXT == 1
BTN_PREV == 2
ONE_BASED_LABELS == TRUE

\* Optional values: an absent list is the empty sequence (no binding has an
\* empty list), an absent number is NoneMs, an absent string is "None".
None == <<>>
NoneMs == -1
Truthy(ms) == ms # NoneMs /\ ms # 0

\* A translation that takes the labels for indices
L_Identity(n) == n

L(n) == IF ONE_BASED_LABELS THEN n - 1 ELSE n
L_idx(n) == IF ONE_BASED_LABELS THEN n - 1 ELSE n

NoBinding ==
    [short_scancode |-> None, long_scancode |-> None, hold_scancode |-> None,
     hold_after_long_scancode |-> None, short_pulse_scancode |-> None,
     hold_repeat_pulse_scancode |-> None, repeat_after_long |-> FALSE]

\* SINGLE_ACTIONS_1B, by label as authored (the same table in both programs)
SINGLE_ACTIONS_1B(label) ==
    CASE label = 22 -> [NoBinding EXCEPT !.short_scancode = <<"F1">>,
                                         !.hold_after_long_scancode = <<"W">>]
      [] label = 8  -> [NoBinding EXCEPT !.hold_scancode = <<"Q">>]
      [] label = 6  -> [NoBinding EXCEPT !.hold_scancode = <<"E">>]
      [] label = 19 -> [NoBinding EXCEPT !.short_pulse_scancode = <<"L">>,
                                         !.hold_repeat_pulse_scancode = <<"L">>,
                                         !.repeat_after_long = TRUE]
      [] OTHER -> NoBinding
SINGLE_LABELS == {22, 8, 6, 19}

\* The settings table is edited by the user, and the engine reads the keys
\* 'short_scancode' and 'long_scancode' of any binding. Two bindings of shapes
\* the shipped table does not use, on the free labels 10 and 11; on the
\* free label 12 a binding whose hold key name is not in SCANCODES and which
\* declares both 'short_scancode' and 'short_pulse_scancode'; on the free
\* label 13 a binding that declares both kinds of hold:
PROBE_ACTIONS_1B(label) ==
    CASE label = 10 -> [NoBinding EXCEPT !.short_scancode = <<"F1">>]
      [] label = 11 -> [NoBinding EXCEPT !.short_scancode = <<"F1">>,
                                         !.long_scancode = <<"W", "E">>]
      [] label = 12 -> [NoBinding EXCEPT !.hold_after_long_scancode = <<"F13">>,
                                         !.short_scancode = <<"F1">>,
                                         !.short_pulse_scancode = <<"L">>]
      [] label = 13 -> [NoBinding EXCEPT !.hold_scancode = <<"Q">>,
                                         !.hold_after_long_scancode = <<"W">>]
      [] OTHER -> NoBinding
PROBE_LABELS == {10, 11, 12, 13}

ARROW_COMBO_LABELS(label) ==
    CASE label = 8 -> "LEFT" [] label = 7 -> "DOWN"
      [] label = 6 -> "RIGHT" [] label = 5 -> "UP" [] OTHER -> "None"
ARROW_LABELS == {8, 7, 6, 5}

MOD2_MAP(b) ==
    CASE b = 7 -> "7" [] b = 5 -> "8" [] b = 4 -> "0" [] b = 6 -> "9" [] OTHER -> "None"
MOD2_KEYS == {7, 5, 4, 6}

\* build_config: the tables keyed by the translated index
\* (the dictionary is built once; actions.get(b, {}) reads it)
ButtonIndices == 0..31
actions_dict ==
    [b \in ButtonIndices |->
        IF \E k \in SINGLE_LABELS : L(k) = b
        THEN SINGLE_ACTIONS_1B(CHOOSE k \in SINGLE_LABELS : L(k) = b)
        ELSE IF \E k \in PROBE_LABELS : L(k) = b
        THEN PROBE_ACTIONS_1B(CHOOSE k \in PROBE_LABELS : L(k) = b)
        ELSE NoBinding]
actions(b) == IF b \in ButtonIndices THEN actions_dict[b] ELSE NoBinding
MOD_BTN == L(MODIFIER_BTN_LABEL)
ARROWS_KEYS == {L(k) : k \in ARROW_LABELS}
ARROWS(b) == ARROW_COMBO_LABELS(CHOOSE k \in ARROW_LABELS : L(k) = b)
LIGHT18_IDX == L_idx(LIGHT_BTN_LABEL)

----------------------------------------------------------------------------
(* The Output Sink: what a handler does is a sequence of trace entries *)

Ev(t, k, v) == [t |-> t, k |-> k, v |-> v]
\* The foreground windows the user switches between, by window handle: 0 is
\* no foreground window, 1 is the game, 2 is another program. Strings are
\* sequences of characters.
Windows == {0, 1, 2}
GetForegroundWindow(w) == w
WindowText(w) == IF w = 1 THEN <<"A", "s", "s", "e", "t", "t", "o", " ", "C", "o", "r", "s", "a">> ELSE <<"N", "o", "t", "e", "p", "a", "d">>
ProcessImageName(w) == IF w = 1 THEN <<"a", "c", "s", ".", "e", "x", "e">> ELSE <<"N", "o", "t", "e", "p", "a", "d", ".", "e", "x", "e">>

ALLOWED_TITLE_SUBSTR == { <<"a", "s", "s", "e", "t", "t", "o", " ", "c", "o", "r", "s", "a">>,
                          <<"c", "o", "n", "t", "e", "n", "t", " ", "m", "a", "n", "a", "g", "e", "r">> }
ALLOWED_PROC_SUBSTR == { <<"a", "c", "s", ".", "e", "x", "e">>, <<"a", "s", "s", "e", "t", "t", "o", "c", "o", "r", "s", "a">> }

\* str.lower() on the letters that occur
LowerChar(c) ==
    CASE c = "A" -> "a" [] c = "C" -> "c" [] c = "N" -> "n" [] OTHER -> c
Lower(str) == [i \in 1..Len(str) |-> LowerChar(str[i])]
\* Python's "s in t" on strings
In(sub, str) ==
    \E i \in 0..(Len(str) - Len(sub)) : SubSeq(str, i + 1, i + Len(sub)) = sub

get_fg_title(w) == IF GetForegroundWindow(w) = 0 THEN <<>> ELSE WindowText(w)
get_fg_proc_name(w) ==
    IF GetForegroundWindow(w) = 0 THEN <<>> ELSE Lower(ProcessImageName(w))

\* A gate that lets output through when there is nothing to look at
allowed_to_send_FailOpen(w) ==
    LET title == Lower(get_fg_title(w))
        proc == get_fg_proc_name(w)
    IN  \/ title = <<>> /\ proc = <<>>
        \/ \E x \in ALLOWED_TITLE_SUBSTR : In(x, title)
        \/ \E x \in ALLOWED_PROC_SUBSTR : In(x, proc)

\* allowed_to_send() with window w in the foreground
allowed_to_send(w) ==
    LET title == Lower(get_fg_title(w))
        proc == get_fg_proc_name(w)
    IN  \/ \E x \in ALLOWED_TITLE_SUBSTR : In(x, title)
        \/ \E x \in ALLOWED_PROC_SUBSTR : In(x, proc)

\* The answer of the gate for each foreground window, and the trace entry of
\* an evaluation: it records the answer and the window that was looked at
GateAnswer == [w \in Windows |-> allowed_to_send(w)]
Gate(w) == Ev("gate", IF GateAnswer[w] THEN "T" ELSE "F", w)
GateT == Gate(1)
GateF == Gate(0)
Sleep(ms) == Ev("sleep", "", IF ms > 0 THEN ms ELSE 0)
Cmd(c) == Ev("cmd", c, 0)

\* The key names of the SCANCODES table of each program
SCANCODES ==
    IF prog = "mapper"
    THEN {"F1", "W", "Q", "E", "L", "ALT", "LEFT", "RIGHT", "UP", "DOWN"}
    ELSE {"F1", "W", "Q", "E", "L", "LEFT", "RIGHT", "UP", "DOWN",
          "1", "2", "3", "4", "5", "6", "7", "8", "9", "0"}

\* SCANCODES[key] raises KeyError for a key name that is not in the table
press_scancode(key) == IF key \in SCANCODES THEN Ev("down", key, 0) ELSE Ev("raise", key, 0)
release_scancode(key) == IF key \in SCANCODES THEN Ev("up", key, 0) ELSE Ev("raise", key, 0)

\* An exception ends the code that runs: the trace stops at the first raise
Raised(tr) == \E i \in 1..Len(tr) : tr[i].t = "raise"
Cut(tr) ==
    IF Raised(tr)
    THEN SubSeq(tr, 1, CHOOSE i \in 1..Len(tr) :
                         tr[i].t = "raise" /\ \A j \in 1..(i - 1) : tr[j].t # "raise")
    ELSE tr

Reverse(s) == [i \in 1..Len(s) |-> s[Len(s) + 1 - i]]
PressAll(keys) == Cut([i \in 1..Len(keys) |-> press_scancode(keys[i])])
ReleaseAll(keys) == Cut([i \in 1..Len(keys) |-> release_scancode(keys[i])])


\* A tap that relies on the caller's gate and does not ask again
tap_scancode_Ungated(keys_down, hold_ms) ==
    { PressAll(keys_down) \o <<Sleep(hold_ms)>> \o ReleaseAll(Reverse(keys_down)) }

\* A tap that asks the gate again before it releases the keys
tap_scancode_RecheckRelease(keys_down, hold_ms) ==
    { <<GateT>> \o PressAll(keys_down) \o <<Sleep(hold_ms)>>
        \o <<GateT>> \o ReleaseAll(Reverse(keys_down)),
      <<GateT>> \o PressAll(keys_down) \o <<Sleep(hold_ms), GateF>>,
      <<GateF>> }

\* tap_scancode: the traces a tap can leave, one per gate answer
tap_scancode(keys_down, hold_ms) ==
    { IF GateAnswer[w] THEN Cut(<<Gate(w)>> \o PressAll(keys_down) \o <<Sleep(hold_ms)>>
                    \o ReleaseAll(Reverse(keys_down)))
           ELSE <<Gate(w)>> : w \in Windows }

\* pulse_scancode: its own gate, then two taps, each with its gate
pulse_scancode(key, on_ms, gap_ms) ==
    UNION { IF GateAnswer[w]
            THEN { Cut(<<Gate(w)>> \o t1 \o <<Sleep(gap_ms)>> \o t2) :
                     t1 \in tap_scancode(<<key>>, on_ms),
                     t2 \in tap_scancode(<<key>>, on_ms) }
            ELSE { <<Gate(w)>> } : w \in Windows }

\* hold_start / hold_stop of the mapper
hold_start(keys) ==
    { IF GateAnswer[w] THEN <<Gate(w)>> \o PressAll(keys) ELSE <<Gate(w)>> : w \in Windows }

hold_stop(keys) ==
    IF keys = None THEN { <<>> }
    ELSE { IF GateAnswer[w] THEN <<Gate(w)>> \o ReleaseAll(Reverse(keys)) ELSE <<Gate(w)>> :
             w \in Windows }

Denials(tr) == Len(SelectSeq(tr, LAMBDA e : e.t = "gate" /\ e.k = "F"))
\* The key events of a trace, as <<"down" | "up", key>> pairs
Pairs(tr) == [i \in 1..Len(tr) |-> <<tr[i].t, tr[i].k>>]
KeyEvents(tr) == Pairs(SelectSeq(tr, LAMBDA e : e.t \in {"down", "up"}))

----------------------------------------------------------------------------
(* ButtonState *)

ButtonState ==
    [is_down |-> FALSE, down_ms |-> 0, suppressed_until_up |-> FALSE,
     hold_keys |-> None, hold_after_long_pending |-> None,
     repeat_mode |-> "None", repeat_every_ms |-> NoneMs,
     repeat_after_long |-> FALSE, next_repeat_ms |-> NoneMs,
     pulse_key |-> "None", pulse_on_ms |-> 0, pulse_gap_ms |-> 0,
     flash_in_on_phase |-> FALSE, flash_toggle_count |-> 0]

\* A step of a handler on one button: the new ButtonState and the trace left
Res(s, tr) == [s |-> s, tr |-> tr]

\* mapper: ButtonState.start_hold / stop_hold / start_repeat_pulse / stop_repeat
start_hold(s, keys) ==
    { Res([s EXCEPT !.hold_keys = keys], t) : t \in hold_start(keys) }

stop_hold(s) ==
    { Res([s EXCEPT !.hold_keys = None], t) :
        t \in (IF s.hold_keys # None THEN hold_stop(s.hold_keys) ELSE { <<>> }) }

\* start_repeat_pulse that drops repeat_after_long
start_repeat_pulse_NoAfterLong(s, key, on_ms, gap_ms, period_ms, after_long, now_ms) ==
    [s EXCEPT !.repeat_mode = "pulse", !.pulse_key = key, !.pulse_on_ms = on_ms,
              !.pulse_gap_ms = gap_ms, !.repeat_every_ms = period_ms,
              !.repeat_after_long = FALSE, !.next_repeat_ms = now_ms]

start_repeat_pulse(s, key, on_ms, gap_ms, period_ms, after_long, now_ms) ==
    [s EXCEPT !.repeat_mode = "pulse", !.pulse_key = key, !.pulse_on_ms = on_ms,
              !.pulse_gap_ms = gap_ms, !.repeat_every_ms = period_ms,
              !.repeat_after_long = after_long, !.next_repeat_ms = now_ms]

stop_repeat(s) ==
    [s EXCEPT !.repeat_mode = "None", !.pulse_key = "None",
              !.repeat_every_ms = NoneMs, !.next_repeat_ms = NoneMs]


----------------------------------------------------------------------------
(* The mapper loop: run(learn_mode=False) *)

\* The threshold comparison made strict
LongEnough_Strict(dur) == dur > LONG_PRESS_MS
\* The threshold comparison against the wrong setting
LongEnough_WrongSetting(dur) == dur >= PULSE_PERIOD_MS

\* The long-press threshold comparison (lines 324, 342, 350 / 453, 470, 477)
LongEnough(dur) == dur >= LONG_PRESS_MS

\* "if allowed_to_send(): tap_scancode(keys, 35)": the loop's own gate, then the tap's
GatedTap(keys, hold_ms) ==
    UNION { IF GateAnswer[w] THEN { <<Gate(w)>> \o t : t \in tap_scancode(keys, hold_ms) }
                 ELSE { <<Gate(w)>> } : w \in Windows }

\* The press bookkeeping (lines 265-268)
run_reset(s, t) ==
    [stop_repeat([s EXCEPT !.is_down = TRUE, !.down_ms = t,
                           !.suppressed_until_up = FALSE])
        EXCEPT !.hold_after_long_pending = None]

\* A press handler that starts the immediate hold before it looks at the combos
run_down_HoldFirst(s, prs, b, t) ==
    LET s1 == run_reset(s, t)
        cfg == actions(b)
        hs == IF cfg.hold_scancode # None THEN start_hold(s1, cfg.hold_scancode)
              ELSE { Res(s1, <<>>) }
    IN  IF MOD_BTN \in prs /\ b \in ARROWS_KEYS
        THEN UNION { { Res([h.s EXCEPT !.suppressed_until_up = TRUE], h.tr \o tr) :
                         tr \in GatedTap(<<ARROWS(b)>>, 35) } : h \in hs }
        ELSE hs

\* JOYBUTTONDOWN of button b; prs is PressedSet with b added
run_down(s, prs, b, t) ==
    LET s1 == run_reset(s, t)
        cfg == actions(b)
    IN  IF MOD_BTN \in prs /\ b \in ARROWS_KEYS
        THEN { Res([s1 EXCEPT !.suppressed_until_up = TRUE], tr) :
                 tr \in GatedTap(<<ARROWS(b)>>, 35) }
        ELSE { Res(
                 LET s2 == IF cfg.hold_after_long_scancode # None
                           THEN [h.s EXCEPT !.hold_after_long_pending =
                                               cfg.hold_after_long_scancode]
                           ELSE h.s
                 IN  IF cfg.hold_repeat_pulse_scancode # None
                     THEN start_repeat_pulse(s2, cfg.hold_repeat_pulse_scancode[1],
                              PULSE_ON_MS, PULSE_GAP_MS, PULSE_PERIOD_MS,
                              cfg.repeat_after_long, t)
                     ELSE s2,
                 h.tr) :
               h \in (IF cfg.hold_scancode # None
                      THEN start_hold(s1, cfg.hold_scancode)
                      ELSE { Res(s1, <<>>) }) }

\* A release decision that falls back to the short action at or over the threshold
run_release_ShortOnLong(s, b, t) ==
    LET dur == t - s.down_ms
        cfg == actions(b)
    IN  IF s.suppressed_until_up THEN { <<>> }
        ELSE IF LongEnough(dur) /\ cfg.long_scancode # None
        THEN GatedTap(cfg.long_scancode, 35)
        ELSE IF cfg.short_scancode # None THEN GatedTap(cfg.short_scancode, 35)
        ELSE IF cfg.short_pulse_scancode # None
        THEN pulse_scancode(cfg.short_pulse_scancode[1], PULSE_ON_MS, PULSE_GAP_MS)
        ELSE { <<>> }

\* The short/long decision of a release (lines 321-337)
run_release(s, b, t) ==
    LET dur == t - s.down_ms
        cfg == actions(b)
    IN  IF s.suppressed_until_up THEN { <<>> }
        ELSE IF LongEnough(dur)
        THEN (IF cfg.long_scancode # None THEN GatedTap(cfg.long_scancode, 35)
                                          ELSE { <<>> })
        ELSE IF cfg.short_scancode # None THEN GatedTap(cfg.short_scancode, 35)
        ELSE IF cfg.short_pulse_scancode # None
        THEN pulse_scancode(cfg.short_pulse_scancode[1], PULSE_ON_MS, PULSE_GAP_MS)
        ELSE { <<>> }

\* JOYBUTTONUP of button b
run_up(s, b, t) ==
    LET s0 == [s EXCEPT !.is_down = FALSE]
    IN  { Res(stop_repeat(h.s), h.tr \o r) :
            h \in stop_hold(s0), r \in run_release(s0, b, t) }

\* A tick that starts the pending hold whether or not keys are already held
run_tick_hold_IgnoreActive(s, t) ==
    IF s.is_down /\ s.hold_after_long_pending # None /\ LongEnough(t - s.down_ms)
    THEN { IF Raised(h.tr) THEN h
           ELSE Res([h.s EXCEPT !.suppressed_until_up = TRUE,
                                !.hold_after_long_pending = None], h.tr) :
             h \in start_hold(s, s.hold_after_long_pending) }
    ELSE { Res(s, <<>>) }

\* A tick that starts the pending hold without waiting for the threshold
run_tick_hold_NoThreshold(s, t) ==
    IF s.is_down /\ s.hold_after_long_pending # None /\ s.hold_keys = None
    THEN { IF Raised(h.tr) THEN h
           ELSE Res([h.s EXCEPT !.suppressed_until_up = TRUE,
                                !.hold_after_long_pending = None], h.tr) :
             h \in start_hold(s, s.hold_after_long_pending) }
    ELSE { Res(s, <<>>) }

\* A tick that stops an active hold once the button has been down for LONG_PRESS_MS
run_tick_hold_Timeout(s, t) ==
    IF s.is_down /\ s.hold_keys # None /\ LongEnough(t - s.down_ms)
    THEN stop_hold(s)
    ELSE IF s.is_down /\ s.hold_after_long_pending # None /\ s.hold_keys = None
            /\ LongEnough(t - s.down_ms)
    THEN { IF Raised(h.tr) THEN h
           ELSE Res([h.s EXCEPT !.suppressed_until_up = TRUE,
                                !.hold_after_long_pending = None], h.tr) :
             h \in start_hold(s, s.hold_after_long_pending) }
    ELSE { Res(s, <<>>) }

\* Tick, first loop: start the hold after the long-press threshold (lines 340-345)
run_tick_hold(s, t) ==
    IF s.is_down /\ s.hold_after_long_pending # None /\ s.hold_keys = None
       /\ LongEnough(t - s.down_ms)
    THEN { IF Raised(h.tr) THEN h
           ELSE Res([h.s EXCEPT !.suppressed_until_up = TRUE,
                                !.hold_after_long_pending = None], h.tr) :
             h \in start_hold(s, s.hold_after_long_pending) }
    ELSE { Res(s, <<>>) }

Unit(mode) == Ev("unit", mode, 0)

\* A repeat tick whose next deadline is counted from the end of the blocking pulse
run_tick_repeat_AfterPulse(s, t) ==
    IF ~(s.is_down /\ Truthy(s.repeat_every_ms)) THEN { Res(s, <<>>) }
    ELSE IF s.repeat_after_long /\ ~LongEnough(t - s.down_ms) THEN { Res(s, <<>>) }
    ELSE IF s.next_repeat_ms = NoneMs \/ t >= s.next_repeat_ms
    THEN { Res([s EXCEPT !.next_repeat_ms =
                           t + 2 * s.pulse_on_ms + s.pulse_gap_ms + s.repeat_every_ms], tr) :
             tr \in (IF s.repeat_mode = "pulse" /\ s.pulse_key # "None"
                     THEN { <<Unit("pulse")>> \o p :
                              p \in pulse_scancode(s.pulse_key, s.pulse_on_ms, s.pulse_gap_ms) }
                     ELSE { <<>> }) }
    ELSE { Res(s, <<>>) }

\* Tick, second loop: the periodic repeats (lines 348-357); no binding declares
\* hold_repeat_scancode, so repeat_mode is never 'keys'
run_tick_repeat(s, t) ==
    IF ~(s.is_down /\ Truthy(s.repeat_every_ms)) THEN { Res(s, <<>>) }
    ELSE IF s.repeat_after_long /\ ~LongEnough(t - s.down_ms) THEN { Res(s, <<>>) }
    ELSE IF s.next_repeat_ms = NoneMs \/ t >= s.next_repeat_ms
    THEN { Res([s EXCEPT !.next_repeat_ms = t + s.repeat_every_ms], tr) :
             tr \in (IF s.repeat_mode = "pulse" /\ s.pulse_key # "None"
                     THEN { <<Unit("pulse")>> \o p :
                              p \in pulse_scancode(s.pulse_key, s.pulse_on_ms, s.pulse_gap_ms) }
                     ELSE { <<>> }) }
    ELSE { Res(s, <<>>) }


----------------------------------------------------------------------------
(* The combo loop: main_loop *)

\* combo: ButtonState.start_hold / stop_hold / start_pulse / start_flash18 / stop_repeat
start_hold_c(s, keys) ==
    { Res([s EXCEPT !.hold_keys = keys],
          IF GateAnswer[w] THEN <<Gate(w)>> \o PressAll(keys) ELSE <<Gate(w)>>) : w \in Windows }

stop_hold_c(s) ==
    IF s.hold_keys # None
    THEN { Res([s EXCEPT !.hold_keys = None],
               IF GateAnswer[w] THEN <<Gate(w)>> \o ReleaseAll(Reverse(s.hold_keys)) ELSE <<Gate(w)>>) :
             w \in Windows }
    ELSE { Res([s EXCEPT !.hold_keys = None], <<>>) }

\* start_pulse that drops repeat_after_long
start_pulse_NoAfterLong(s, key, period_ms, after_long, now_ms) ==
    [s EXCEPT !.repeat_mode = "pulse", !.pulse_key = key, !.repeat_every_ms = period_ms,
              !.repeat_after_long = FALSE, !.next_repeat_ms = now_ms]

start_pulse(s, key, period_ms, after_long, now_ms) ==
    [s EXCEPT !.repeat_mode = "pulse", !.pulse_key = key, !.repeat_every_ms = period_ms,
              !.repeat_after_long = after_long, !.next_repeat_ms = now_ms]

\* A flasher whose first unit waits one period
start_flash18_Deferred(s, period_ms, now_ms) ==
    [s EXCEPT !.repeat_mode = "flash18", !.repeat_every_ms = period_ms,
              !.repeat_after_long = FALSE, !.next_repeat_ms = now_ms + period_ms,
              !.flash_in_on_phase = FALSE, !.flash_toggle_count = 0]

start_flash18(s, period_ms, now_ms) ==
    [s EXCEPT !.repeat_mode = "flash18", !.repeat_every_ms = period_ms,
              !.repeat_after_long = FALSE, !.next_repeat_ms = now_ms,
              !.flash_in_on_phase = FALSE, !.flash_toggle_count = 0]

stop_repeat_c(s) ==
    [s EXCEPT !.repeat_mode = "None", !.repeat_every_ms = NoneMs,
              !.next_repeat_ms = NoneMs, !.pulse_key = "None",
              !.flash_in_on_phase = FALSE]

\* No debounce filter
Debounced_Off(ldm, b, t) == FALSE

\* The debounce filter (line 381)
Debounced(ldm, b, t) == t - ldm[b] < DEBOUNCE_MS

\* The press bookkeeping (lines 386-388)
main_reset(s, t) ==
    [stop_repeat_c([s EXCEPT !.is_down = TRUE, !.down_ms = t,
                             !.suppressed_until_up = FALSE])
        EXCEPT !.hold_after_long_pending = None]

\* The music commands of a press (lines 424-430)
main_music(b, ig) ==
    IF ~ig THEN (IF b = BTN_PLAY_PAUSE THEN <<Cmd("play_pause")>>
                 ELSE IF b = BTN_NEXT THEN <<Cmd("next")>>
                 ELSE IF b = BTN_PREV THEN <<Cmd("prev")>> ELSE <<>>)
    ELSE (IF b = BTN_NEXT THEN <<Cmd("next")>>
          ELSE IF b = BTN_PREV THEN <<Cmd("prev")>> ELSE <<>>)

StRes(st, tr) == [st |-> st, tr |-> tr]

\* A combo press that marks the pressed button only
MarkCombo_PressedOnly(st, b, m) == [st EXCEPT ![b].suppressed_until_up = TRUE]

\* A combo press that also takes the modifier for released
MarkCombo_ModifierUp(st, b, m) ==
    [st EXCEPT ![b].suppressed_until_up = TRUE, ![m].suppressed_until_up = TRUE,
               ![m].is_down = FALSE]

\* A combo press marks the pressed button and the combo's modifier
\* (lines 396-398, 404-406)
MarkCombo(st, b, m) ==
    [st EXCEPT ![b].suppressed_until_up = TRUE, ![m].suppressed_until_up = TRUE]

\* An accepted JOYBUTTONDOWN of button b (lines 385-430); prs is PressedSet
\* with b added when in_game
main_loop_down(st, prs, b, t, ig) ==
    LET s1 == main_reset(st[b], t)
        st1 == [st EXCEPT ![b] = s1]
        cfg == actions(b)
    IN  IF ~ig THEN { StRes(st1, main_music(b, ig)) }
        ELSE IF MOD2_BTN_IDX \in prs /\ b \in MOD2_KEYS
        THEN { StRes(MarkCombo(st1, b, MOD2_BTN_IDX), tr) :
                 tr \in tap_scancode(<<MOD2_MAP(b)>>, 35) }
        ELSE IF MOD_BTN \in prs /\ b \in ARROWS_KEYS
        THEN { StRes(MarkCombo(st1, b, MOD_BTN), tr) :
                 tr \in tap_scancode(<<ARROWS(b)>>, 35) }
        ELSE IF b = LIGHT18_IDX
        THEN { StRes([st1 EXCEPT ![b] = start_flash18(s1, PULSE_PERIOD_MS, t)], <<>>) }
        ELSE { StRes([st1 EXCEPT ![b] =
                 LET s2 == IF cfg.hold_after_long_scancode # None
                           THEN [h.s EXCEPT !.hold_after_long_pending =
                                               cfg.hold_after_long_scancode]
                           ELSE h.s
                 IN  IF cfg.hold_repeat_pulse_scancode # None
                     THEN start_pulse(s2, cfg.hold_repeat_pulse_scancode[1],
                                      PULSE_PERIOD_MS, cfg.repeat_after_long, t)
                     ELSE s2],
                 h.tr \o main_music(b, ig)) :
               h \in (IF cfg.hold_scancode # None
                      THEN start_hold_c(s1, cfg.hold_scancode)
                      ELSE { Res(s1, <<>>) }) }

\* Release of the flash button: the corrective OFF tap (lines 439-445)
main_flash_release(s, b) ==
    IF b = LIGHT18_IDX /\ s.repeat_mode = "flash18"
    THEN IF s.flash_in_on_phase
         THEN { Res(stop_repeat_c([s EXCEPT !.flash_toggle_count = @ + 1]), tr) :
                  tr \in tap_scancode(<<"L">>, 20) }
         ELSE { Res(stop_repeat_c(s), <<>>) }
    ELSE { Res(s, <<>>) }

\* A release decision that gives nothing to a button with a pending hold
main_release_NoFallThrough(s, b, t) ==
    LET dur == t - s.down_ms
        cfg == actions(b)
    IN  IF s.suppressed_until_up \/ cfg.hold_after_long_scancode # None THEN { <<>> }
        ELSE IF LongEnough(dur)
        THEN (IF cfg.long_scancode # None THEN tap_scancode(cfg.long_scancode, 35)
                                          ELSE { <<>> })
        ELSE IF cfg.short_scancode # None THEN tap_scancode(cfg.short_scancode, 35)
        ELSE IF cfg.short_pulse_scancode # None
        THEN pulse_scancode(cfg.short_pulse_scancode[1], PULSE_ON_MS, PULSE_GAP_MS)
        ELSE { <<>> }

\* The short/long decision of a release (lines 450-459)
main_release(s, b, t) ==
    LET dur == t - s.down_ms
        cfg == actions(b)
    IN  IF s.suppressed_until_up THEN { <<>> }
        ELSE IF LongEnough(dur)
        THEN (IF cfg.long_scancode # None THEN tap_scancode(cfg.long_scancode, 35)
                                          ELSE { <<>> })
        ELSE IF cfg.short_scancode # None THEN tap_scancode(cfg.short_scancode, 35)
        ELSE IF cfg.short_pulse_scancode # None
        THEN pulse_scancode(cfg.short_pulse_scancode[1], PULSE_ON_MS, PULSE_GAP_MS)
        ELSE { <<>> }

\* JOYBUTTONUP of button b (lines 432-463)
main_loop_up(s, b, t, ig) ==
    LET s0 == [s EXCEPT !.is_down = FALSE]
        pause == IF b = BTN_PLAY_PAUSE /\ ~s0.suppressed_until_up
                 THEN <<Cmd("play_pause")>> ELSE <<>>
    IN  IF ~ig THEN { Res(s0, <<>>) }
        ELSE UNION { { Res(h.s, f.tr \o h.tr \o r \o pause) :
                         h \in stop_hold_c(f.s), r \in main_release(s0, b, t) } :
                     f \in main_flash_release(s0, b) }

\* A tick that starts the pending hold and leaves suppressed_until_up alone
main_tick_hold_NoSuppress(s, t) ==
    IF s.is_down /\ s.hold_after_long_pending # None /\ s.hold_keys = None
       /\ LongEnough(t - s.down_ms)
    THEN { IF Raised(h.tr) THEN h
           ELSE Res([h.s EXCEPT !.hold_after_long_pending = None], h.tr) :
             h \in start_hold_c(s, s.hold_after_long_pending) }
    ELSE { Res(s, <<>>) }

\* Tick of one button: start the hold after the long-press threshold (lines 469-473)
main_tick_hold(s, t) ==
    IF s.is_down /\ s.hold_after_long_pending # None /\ s.hold_keys = None
       /\ LongEnough(t - s.down_ms)
    THEN { IF Raised(h.tr) THEN h
           ELSE Res([h.s EXCEPT !.suppressed_until_up = TRUE,
                                !.hold_after_long_pending = None], h.tr) :
             h \in start_hold_c(s, s.hold_after_long_pending) }
    ELSE { Res(s, <<>>) }

\* Tick of one button: the periodic double tap (lines 476-483)
main_tick_pulse(s, t) ==
    IF ~(s.is_down /\ s.repeat_mode = "pulse" /\ Truthy(s.repeat_every_ms))
    THEN { Res(s, <<>>) }
    ELSE IF s.repeat_after_long /\ ~LongEnough(t - s.down_ms) THEN { Res(s, <<>>) }
    ELSE IF s.next_repeat_ms = NoneMs \/ t >= s.next_repeat_ms
    THEN { Res([s EXCEPT !.next_repeat_ms = t + s.repeat_every_ms], tr) :
             tr \in (IF s.pulse_key # "None"
                     THEN { <<Unit("pulse")>> \o p :
                              p \in pulse_scancode(s.pulse_key, PULSE_ON_MS, PULSE_GAP_MS) }
                     ELSE { <<>> }) }
    ELSE { Res(s, <<>>) }

\* A flasher tick that does not clear the phase flag after the OFF tap
main_tick_flash_PhaseLeftOn(s, t) ==
    IF s.is_down /\ s.repeat_mode = "flash18" /\ Truthy(s.repeat_every_ms)
       /\ (s.next_repeat_ms = NoneMs \/ t >= s.next_repeat_ms)
    THEN { Res([s EXCEPT !.flash_in_on_phase = TRUE,
                         !.flash_toggle_count = @ + 2,
                         !.next_repeat_ms = t + s.repeat_every_ms],
               <<Unit("flash18")>> \o t1 \o <<Sleep(PULSE_ON_MS)>> \o t2) :
             t1 \in tap_scancode(<<"L">>, 10), t2 \in tap_scancode(<<"L">>, 10) }
    ELSE { Res(s, <<>>) }

\* Tick of one button: the flasher, ON tap, sleep, OFF tap (lines 486-496)
main_tick_flash(s, t) ==
    IF s.is_down /\ s.repeat_mode = "flash18" /\ Truthy(s.repeat_every_ms)
       /\ (s.next_repeat_ms = NoneMs \/ t >= s.next_repeat_ms)
    THEN { Res([s EXCEPT !.flash_in_on_phase = FALSE,
                         !.flash_toggle_count = @ + 2,
                         !.next_repeat_ms = t + s.repeat_every_ms],
               <<Unit("flash18")>> \o t1 \o <<Sleep(PULSE_ON_MS)>> \o t2) :
             t1 \in tap_scancode(<<"L">>, 10), t2 \in tap_scancode(<<"L">>, 10) }
    ELSE { Res(s, <<>>) }

\* The three tick steps of one button, in the order of the loop body
main_tick_button(s, t) ==
    UNION { IF Raised(h.tr) THEN { h }
            ELSE UNION { { Res(f.s, h.tr \o p.tr \o f.tr) : f \in main_tick_flash(p.s, t) } :
                         p \in main_tick_pulse(h.s, t) } :
            h \in main_tick_hold(s, t) }


----------------------------------------------------------------------------
(* The tick phase over all buttons, in the order of the states dictionary *)

Tag(tr, b) == [i \in 1..Len(tr) |-> [t |-> tr[i].t, k |-> tr[i].k, v |-> tr[i].v, b |-> b]]
MinOf(S) == CHOOSE x \in S : \A y \in S : x <= y

TickStep(phase, s, t) ==
    CASE phase = "run_hold" -> run_tick_hold(s, t)
      [] phase = "run_repeat" -> run_tick_repeat(s, t)
      [] phase = "main" -> main_tick_button(s, t)

RECURSIVE ForEach(_, _, _, _)
ForEach(phase, st, bs, t) ==
    IF bs = {} THEN { StRes(st, <<>>) }
    ELSE LET b == MinOf(bs)
         IN  UNION { IF Raised(r1.tr)
                     THEN { StRes([st EXCEPT ![b] = r1.s], Tag(r1.tr, b)) }
                     ELSE { StRes(r2.st, Tag(r1.tr, b) \o r2.tr) :
                              r2 \in ForEach(phase, [st EXCEPT ![b] = r1.s], bs \ {b}, t) } :
                     r1 \in TickStep(phase, st[b], t) }

\* mapper: lines 339-357
run_ticks(st, t) ==
    UNION { IF Raised(r1.tr) THEN { r1 }
            ELSE { StRes(r2.st, r1.tr \o r2.tr) :
                     r2 \in ForEach("run_repeat", r1.st, Buttons, t) } :
            r1 \in ForEach("run_hold", st, Buttons, t) }

\* combo: lines 465-496
main_loop_ticks(st, t, ig) ==
    IF ig THEN ForEach("main", st, Buttons, t) ELSE { StRes(st, <<>>) }

----------------------------------------------------------------------------
(* History of a step *)

EventsOf(tr, b) == Pairs(SelectSeq(tr, LAMBDA e : e.b = b /\ e.t \in {"down", "up"}))
UnitsOf(tr, b) == Len(SelectSeq(tr, LAMBDA e : e.b = b /\ e.t = "unit"))
Step(act, b, ok) == [act |-> act, b |-> b, ok |-> ok, now |-> now]

\* The combo a press of b takes part in, given the buttons held with an
\* accepted press: its modifier and the key it maps b to
NoCombo == [m |-> -1, k |-> "None"]
ComboOf(b, held) ==
    IF prog = "combo" /\ MOD2_BTN_IDX \in held /\ b \in MOD2_KEYS
    THEN [m |-> MOD2_BTN_IDX, k |-> MOD2_MAP(b)]
    ELSE IF MOD_BTN \in held /\ b \in ARROWS_KEYS
    THEN [m |-> MOD_BTN, k |-> ARROWS(b)]
    ELSE NoCombo

everDenied == denials > 0

Touched == { b \in Buttons : states[b].down_ms # 0 }

----------------------------------------------------------------------------
(* The state machine *)

Init ==
    /\ prog \in {"mapper", "combo"}
    /\ now = T0
    /\ in_game \in (IF prog = "combo" THEN { GateAnswer[w] : w \in Windows } ELSE {TRUE})
    /\ states = [b \in Buttons |-> ButtonState]
    /\ pressed = {}
    /\ last_down_ms = [b \in Buttons |-> 0]
    /\ phys = {}
    /\ out = <<>>
    /\ last = Step("init", -1, TRUE)
    /\ acc = {}
    /\ cyc = [b \in Buttons |-> <<>>]
    /\ units = [b \in Buttons |-> 0]
    /\ comboUsed = {}
    /\ presses = 0
    /\ denials = IF in_game THEN 0 ELSE 1
    /\ running = TRUE

\* The per-press history is kept for the buttons held and for the button of
\* the step, and dropped for the others
Kept(f, keep, empty) == [x \in Buttons |-> IF x \in keep THEN f[x] ELSE empty]

\* The history of an accepted press of b that left trace tr
Accepted(b, tr) ==
    LET c == ComboOf(b, (phys \cap acc) \ {b})
    IN  /\ denials + Denials(tr) <= MaxDenials
        /\ denials' = denials + Denials(tr)
        /\ out' = Tag(tr, b)
        /\ last' = Step("down", b, TRUE)
        /\ acc' = acc \cup {b}
        /\ cyc' = [Kept(cyc, phys, <<>>) EXCEPT ![b] = KeyEvents(tr)]
        /\ units' = [Kept(units, phys, 0) EXCEPT ![b] = 0]
        /\ comboUsed' = IF c = NoCombo THEN (comboUsed \cap phys) \ {b}
                        ELSE (comboUsed \cap phys) \cup {b, c.m}

Released(b, tr) ==
    /\ denials + Denials(tr) <= MaxDenials
    /\ denials' = denials + Denials(tr)
    /\ out' = Tag(tr, b)
    /\ last' = Step("up", b, b \in acc)
    /\ acc' = acc \ {b}
    /\ cyc' = [Kept(cyc, phys, <<>>) EXCEPT ![b] = @ \o KeyEvents(tr)]
    /\ units' = Kept(units, phys, 0)
    /\ comboUsed' = comboUsed \cap phys

Ticked(tr) ==
    /\ out' = tr
    /\ last' = Step("tick", -1, TRUE)
    /\ cyc' = [b \in Buttons |-> IF b \in phys THEN cyc[b] \o EventsOf(tr, b) ELSE <<>>]
    /\ units' = [b \in Buttons |-> IF b \in phys THEN units[b] + UnitsOf(tr, b) ELSE 0]
    /\ comboUsed' = comboUsed \cap phys
    /\ UNCHANGED acc

\* mapper: a drained JOYBUTTONDOWN
RunDown(b) ==
    /\ prog = "mapper" /\ running
    /\ b \notin phys
    /\ \E g \in Groups : Touched \cup {b} \subseteq g
    /\ presses < MaxPresses
    /\ presses' = presses + 1
    /\ phys' = phys \cup {b}
    /\ pressed' = pressed \cup {b}
    /\ \E r \in run_down(states[b], pressed \cup {b}, b, now) :
         /\ states' = [states EXCEPT ![b] = r.s]
         /\ Accepted(b, r.tr)
    /\ UNCHANGED <<prog, now, in_game, last_down_ms, running>>

\* mapper: a drained JOYBUTTONUP
RunUp(b) ==
    /\ prog = "mapper" /\ running
    /\ b \in phys
    /\ phys' = phys \ {b}
    /\ pressed' = pressed \ {b}
    /\ \E r \in run_up(states[b], b, now) :
         /\ states' = [states EXCEPT ![b] = r.s]
         /\ Released(b, r.tr)
    /\ UNCHANGED <<prog, now, in_game, last_down_ms, presses, running>>

\* mapper: the tick phase, clock.tick and the next iteration's timestamp; an
\* exception raised in the tick phase leaves run() and ends the process
RunTicks ==
    /\ prog = "mapper" /\ running
    /\ \E d \in Deltas : now + d <= MaxNow
    /\ \E r \in run_ticks(states, now) :
         /\ states' = r.st
         /\ Ticked(r.tr)
         /\ denials + Denials(r.tr) <= MaxDenials
         /\ denials' = denials + Denials(r.tr)
         /\ running' = ~Raised(r.tr)
         /\ IF Raised(r.tr) THEN now' = now
            ELSE \E d \in Deltas : now + d <= MaxNow /\ now' = now + d
    /\ UNCHANGED <<prog, in_game, pressed, last_down_ms, phys, presses>>

\* A JOYBUTTONDOWN whose rejection by the debounce filter restarts the window
MainDown_RejectedRestartsWindow(b) ==
    /\ prog = "combo" /\ running
    /\ b \notin phys
    /\ \E g \in Groups : Touched \cup {b} \subseteq g
    /\ presses < MaxPresses
    /\ presses' = presses + 1
    /\ phys' = phys \cup {b}
    /\ IF Debounced(last_down_ms, b, now)
       THEN /\ out' = <<>>
            /\ last' = Step("down", b, FALSE)
            /\ acc' = acc \ {b}
            /\ cyc' = Kept(cyc, phys, <<>>)
            /\ units' = Kept(units, phys, 0)
            /\ comboUsed' = comboUsed \cap phys
            /\ last_down_ms' = [last_down_ms EXCEPT ![b] = now]
            /\ UNCHANGED <<states, pressed, denials>>
       ELSE /\ last_down_ms' = [last_down_ms EXCEPT ![b] = now]
            /\ pressed' = IF in_game THEN pressed \cup {b} ELSE pressed
            /\ \E r \in main_loop_down(states, pressed', b, now, in_game) :
                 /\ states' = r.st
                 /\ Accepted(b, r.tr)
    /\ UNCHANGED <<prog, now, in_game, running>>

\* combo: a drained JOYBUTTONDOWN
MainDown(b) ==
    /\ prog = "combo" /\ running
    /\ b \notin phys
    /\ \E g \in Groups : Touched \cup {b} \subseteq g
    /\ presses < MaxPresses
    /\ presses' = presses + 1
    /\ phys' = phys \cup {b}
    /\ IF Debounced(last_down_ms, b, now)
       THEN /\ out' = <<>>
            /\ last' = Step("down", b, FALSE)
            /\ acc' = acc \ {b}
            /\ cyc' = Kept(cyc, phys, <<>>)
            /\ units' = Kept(units, phys, 0)
            /\ comboUsed' = comboUsed \cap phys
            /\ UNCHANGED <<states, pressed, last_down_ms, denials>>
       ELSE /\ last_down_ms' = [last_down_ms EXCEPT ![b] = now]
            /\ pressed' = IF in_game THEN pressed \cup {b} ELSE pressed
            /\ \E r \in main_loop_down(states, pressed', b, now, in_game) :
                 /\ states' = r.st
                 /\ Accepted(b, r.tr)
    /\ UNCHANGED <<prog, now, in_game, running>>

\* combo: a drained JOYBUTTONUP
MainUp(b) ==
    /\ prog = "combo" /\ running
    /\ b \in phys
    /\ phys' = phys \ {b}
    /\ pressed' = IF in_game THEN pressed \ {b} ELSE pressed
    /\ \E r \in main_loop_up(states[b], b, now, in_game) :
         /\ states' = [states EXCEPT ![b] = r.s]
         /\ Released(b, r.tr)
    /\ UNCHANGED <<prog, now, last_down_ms, in_game, presses, running>>

\* combo: the tick phase, clock.tick and the next iteration's timestamp and
\* in_game; an exception raised in the tick phase leaves main_loop() and main()
MainTicks ==
    /\ prog = "combo" /\ running
    /\ \E d \in Deltas : now + d <= MaxNow
    /\ \E r \in main_loop_ticks(states, now, in_game) :
         /\ states' = r.st
         /\ Ticked(r.tr)
         /\ running' = ~Raised(r.tr)
         /\ IF Raised(r.tr)
            THEN /\ now' = now /\ in_game' = in_game
                 /\ denials + Denials(r.tr) <= MaxDenials
                 /\ denials' = denials + Denials(r.tr)
            ELSE /\ \E d \in Deltas : now + d <= MaxNow /\ now' = now + d
                 /\ \E g \in { GateAnswer[w] : w \in Windows } :
                      /\ in_game' = g
                      /\ denials + Denials(r.tr) + (IF g THEN 0 ELSE 1) <= MaxDenials
                      /\ denials' = denials + Denials(r.tr) + (IF g THEN 0 ELSE 1)
    /\ UNCHANGED <<prog, pressed, last_down_ms, phys, presses>>

\* The process ends while it waits in clock.tick: a KeyboardInterrupt leaves
\* the loop; run() has no handler and main() only prints; nothing is released
Exit ==
    /\ running /\ last.act = "tick"
    /\ running' = FALSE
    /\ out' = <<>>
    /\ last' = Step("exit", -1, TRUE)
    /\ UNCHANGED <<prog, now, in_game, states, pressed, last_down_ms, phys,
                   acc, cyc, units, comboUsed, presses, denials>>

Next ==
    \/ \E b \in Buttons : RunDown(b)
    \/ \E b \in Buttons : RunUp(b)
    \/ RunTicks
    \/ \E b \in Buttons : MainDown(b)
    \/ \E b \in Buttons : MainUp(b)
    \/ MainTicks
    \/ Exit

Spec == Init /\ [][Next]_vars


----------------------------------------------------------------------------
(* Vocabulary of the properties *)

\* The step just taken handled the press / the release of an accepted press of b
AfterDown(b) == last.act = "down" /\ last.b = b /\ last.ok
AfterUp(b) == last.act = "up" /\ last.b = b /\ last.ok
AfterTick == last.act = "tick"
\* The measured duration of the press whose release was just handled
Duration(b) == last.now - states[b].down_ms
\* The buttons held with an accepted press
Held == phys \cap acc

\* One tap of a key list, as key events: down in list order, up in reverse order
TapKeys(keys) ==
    [i \in 1..(2 * Len(keys)) |->
        IF i <= Len(keys) THEN <<"down", keys[i]>>
        ELSE <<"up", keys[2 * Len(keys) + 1 - i]>>]
OutKeys == KeyEvents(out)
OutCmds == SelectSeq(out, LAMBDA e : e.t = "cmd")
Count(seq, x) == Len(SelectSeq(seq, LAMBDA e : e = x))

\* The (modifier, secondary) pairs of the combo tables and the key of each
ComboPairs ==
    { <<MOD_BTN, sb>> : sb \in ARROWS_KEYS \cap Buttons }
    \cup (IF prog = "combo" THEN { <<MOD2_BTN_IDX, sb>> : sb \in MOD2_KEYS \cap Buttons }
          ELSE {})
ComboKey(m, sb) == IF m = MOD_BTN THEN ARROWS(sb) ELSE MOD2_MAP(sb)

----------------------------------------------------------------------------
(* C1 *)

----------------------------------------------------------------------------
(* C2 *)

HoldBound(b) == actions(b).hold_scancode # None
Downs(seq) == SelectSeq(seq, LAMBDA e : e[1] = "down")

\* C2: in a press cycle of a button bound to holdAction in which the held
\* keys went down, each key went down once, and when the release has been
\* handled each key has gone up exactly once, in reverse key order.
C2_HoldBalanced ==
    \A b \in Buttons :
        LET keys == actions(b).hold_scancode
            held == SelectSeq(cyc[b], LAMBDA e : \E i \in 1..Len(keys) : e[2] = keys[i])
        IN  (HoldBound(b) /\ AfterUp(b) /\ Downs(held) # <<>>) => held = TapKeys(keys)

----------------------------------------------------------------------------
(* C3 *)

\* The binding of b declares shortAction, possibly a long action, and nothing else
OnlyShort(b) ==
    LET cfg == actions(b)
    IN  /\ cfg.short_scancode # None
        /\ cfg.hold_scancode = None /\ cfg.hold_after_long_scancode = None
        /\ cfg.short_pulse_scancode = None /\ cfg.hold_repeat_pulse_scancode = None

\* C3: with output allowed, the cycle of a button bound to shortAction only
\* emits exactly one tap of the short action when its duration is below
\* LONG_PRESS_MS; at or above it emits exactly one tap of the long action
\* when one is configured and no key event at all otherwise.
C3_ShortOnly ==
    \A b \in Buttons :
        (OnlyShort(b) /\ AfterUp(b) /\ ~everDenied) =>
            cyc[b] = IF Duration(b) < LONG_PRESS_MS
                     THEN TapKeys(actions(b).short_scancode)
                     ELSE IF actions(b).long_scancode # None
                     THEN TapKeys(actions(b).long_scancode)
                     ELSE <<>>

\* A short-only button released at the threshold or later, nothing emitted
C3_Witness ==
    \E b \in Buttons :
        /\ OnlyShort(b) /\ actions(b).long_scancode = None
        /\ AfterUp(b) /\ ~everDenied
        /\ Duration(b) >= LONG_PRESS_MS

----------------------------------------------------------------------------
(* C4 *)

\* C4: in the combo loop, when the release of the flash button has been
\* handled, the L taps delivered during the press cycle are even in number.
C4_FlashEven ==
    (prog = "combo" /\ AfterUp(LIGHT18_IDX)) =>
        Count(cyc[LIGHT18_IDX], <<"down", "L">>) % 2 = 0

----------------------------------------------------------------------------
(* C6, C7, C8 *)

PulseBound(b) ==
    /\ actions(b).short_pulse_scancode # None
    /\ actions(b).hold_repeat_pulse_scancode # None
    /\ actions(b).repeat_after_long

\* C6: with output allowed, a cycle shorter than LONG_PRESS_MS of a button
\* bound to shortPulse and repeatPulse with repeatAfterLong fires no periodic
\* repeat and emits exactly two taps of the key, both when the release is handled.
C6_ShortCycleOnePulse ==
    \A b \in Buttons :
        (PulseBound(b) /\ AfterUp(b) /\ ~everDenied /\ Duration(b) < LONG_PRESS_MS) =>
            LET k == actions(b).short_pulse_scancode[1]
            IN  /\ units[b] = 0
                /\ OutKeys = TapKeys(<<k>>) \o TapKeys(<<k>>)
                /\ cyc[b] = OutKeys

\* A short cycle of the pulse button that lasted over at least one tick
C6_Witness ==
    \E b \in Buttons :
        /\ PulseBound(b) /\ AfterUp(b) /\ ~everDenied
        /\ Duration(b) < LONG_PRESS_MS /\ Duration(b) > 0

\* C7: the release of a cycle in which a periodic repeat has fired emits no
\* key event, whatever the gate answers.
C7_NoPulseAfterRepeat ==
    \A b \in Buttons :
        (PulseBound(b) /\ AfterUp(b) /\ units[b] >= 1) => OutKeys = <<>>

\* A release of the pulse button after a repeat unit
C7_Witness ==
    \E b \in Buttons : PulseBound(b) /\ AfterUp(b) /\ units[b] >= 1 /\ ~everDenied

\* C8: a tick fires a repeat unit of a button whose repeat has
\* repeatAfterLong only when now - downTimestamp >= LONG_PRESS_MS.
C8_RepeatAfterLong ==
    \A b \in Buttons :
        (AfterTick /\ states[b].repeat_after_long
         /\ \E i \in 1..Len(out) : out[i].t = "unit" /\ out[i].b = b) =>
            last.now - states[b].down_ms >= LONG_PRESS_MS

\* A tick that fired a repeat unit of a repeatAfterLong button
C8_Witness ==
    \E b \in Buttons :
        /\ AfterTick /\ states[b].repeat_after_long
        /\ \E i \in 1..Len(out) : out[i].t = "unit" /\ out[i].b = b

----------------------------------------------------------------------------
(* C9 *)

----------------------------------------------------------------------------
(* C10 *)

\* C10: every key-down injected by a handler directly follows, within the
\* same tap or hold start (only the key-downs of the same key list in
\* between), a gate evaluation that answered true.
C10_GateBeforeDown ==
    \A i \in 1..Len(out) :
        out[i].t = "down" =>
            \E j \in 1..(i - 1) :
                /\ out[j].t = "gate" /\ out[j].k = "T" /\ out[j].b = out[i].b
                /\ \A m \in (j + 1)..(i - 1) : out[m].t = "down"

\* A tick of the combo loop, entered with in_game true, that injected a key-down
C10_Witness ==
    /\ prog = "combo" /\ AfterTick
    /\ \E i \in 1..Len(out) : out[i].t = "down"

----------------------------------------------------------------------------
(* C11 *)

\* The number of consecutive key-downs that end at position i of the trace
RECURSIVE DownRun(_, _)
DownRun(tr, i) == IF i >= 1 /\ tr[i].t = "down" THEN 1 + DownRun(tr, i - 1) ELSE 0

\* C11: a tap is all-or-nothing. A gate answer of false is followed by no key
\* event of that call; the sleep of a tap (the sleep that follows key-downs)
\* is preceded by the key-downs of the key list, themselves preceded by a
\* gate answer of true, and is followed at once, with no further gate
\* evaluation, by the key-ups of the same keys in reverse order.
C11_TapAllOrNothing ==
    /\ \A i \in 1..Len(out) :
         (out[i].t = "gate" /\ out[i].k = "F" /\ i < Len(out)) =>
            out[i + 1].t \notin {"down", "up"}
    /\ \A i \in 2..Len(out) :
         (out[i].t = "sleep" /\ out[i - 1].t = "down") =>
            LET n == DownRun(out, i - 1)
            IN  /\ i - n - 1 >= 1
                /\ out[i - n - 1].t = "gate" /\ out[i - n - 1].k = "T"
                /\ i + n <= Len(out)
                /\ \A m \in 1..n :
                     out[i + m].t = "up" /\ out[i + m].k = out[i - m].k

\* A handler has made a tap of two keys, and the gate has answered false
\* at some moment of the run
C11_Witness ==
    /\ everDenied
    /\ \E i \in 3..Len(out) :
         out[i].t = "sleep" /\ out[i - 1].t = "down" /\ out[i - 2].t = "down"

----------------------------------------------------------------------------
(* C12 *)

Ups(seq) == SelectSeq(seq, LAMBDA e : e[1] = "up")

\* C12: a hold start that the gate denies is a no-op. When the press of a
\* button bound to holdAction has been handled with the gate answering
\* false, hold_keys does not record the keys; and when the release of a
\* cycle has been handled, no key has gone up that did not go down in the cycle.
C12_DeniedHoldNoop ==
    \A b \in Buttons :
        /\ (HoldBound(b) /\ AfterDown(b) /\ KeyEvents(out) = <<>>
            /\ \E i \in 1..Len(out) : out[i].t = "gate" /\ out[i].k = "F") =>
               states[b].hold_keys = None
        /\ (HoldBound(b) /\ AfterUp(b) /\ b \notin comboUsed) =>
               (Ups(cyc[b]) # <<>> => Downs(cyc[b]) # <<>>)

----------------------------------------------------------------------------
(* C13 *)

\* C13: a pulse injects two complete taps of its key or nothing at all. The
\* release of a cycle shorter than LONG_PRESS_MS of a button bound to
\* shortPulse makes one pulse: the key events of the handler are two taps
\* of the key or none.
C13_PulseTwoOrNone ==
    \A b \in Buttons :
        (PulseBound(b) /\ AfterUp(b) /\ Duration(b) < LONG_PRESS_MS) =>
            LET k == actions(b).short_pulse_scancode[1]
            IN  OutKeys \in { <<>>, TapKeys(<<k>>) \o TapKeys(<<k>>) }

----------------------------------------------------------------------------
(* C14 *)

\* C14: when the process has left its loop, every key that a hold of a
\* button still held has put down has gone up: in the cycle of every
\* button as many key-ups as key-downs have been injected.
C14_ExitReleasesHolds ==
    ~running => \A b \in Buttons : Len(Ups(cyc[b])) = Len(Downs(cyc[b]))

----------------------------------------------------------------------------
(* C15 *)

\* The hold after the long-press threshold of button b is due at time t
HoldDue(b, t) ==
    /\ states[b].is_down /\ states[b].hold_after_long_pending # None
    /\ states[b].hold_keys = None /\ LongEnough(t - states[b].down_ms)

\* C15: when the evaluation of one button has raised in a tick, the
\* evaluation of the other buttons has taken place in that tick (no hold
\* after the threshold of another button is left due) and the loop goes on.
C15_FaultIsolated ==
    (AfterTick /\ Raised(out)) =>
        /\ running
        /\ \A b \in Buttons :
             (\A i \in 1..Len(out) : out[i].t = "raise" => out[i].b # b) =>
                ~HoldDue(b, last.now)

----------------------------------------------------------------------------
(* C16 *)

\* The last gate evaluation made for the same button before position i of
\* the trace, 0 if there is none
LastGate(tr, i) ==
    LET G == { j \in 1..(i - 1) : tr[j].t = "gate" /\ tr[j].b = tr[i].b }
    IN  IF G = {} THEN 0 ELSE CHOOSE j \in G : \A m \in G : m <= j

----------------------------------------------------------------------------
(* C17 *)

\* The binding authored under label k, whichever table holds it
Authored(k) == IF k \in SINGLE_LABELS THEN SINGLE_ACTIONS_1B(k) ELSE PROBE_ACTIONS_1B(k)

\* C17: the translation takes every label n to the index n - 1; build_config
\* applies it once to the keys of the binding table, to the modifier label
\* and to the keys of the combo table, so no two labels collide and the
\* tables keep their sizes; and a press of the button of index n - 1 that
\* no combo takes is interpreted with the binding authored under label n.
C17_LabelTranslation ==
    /\ \A n \in 1..32 : L(n) = n - 1 /\ L_idx(n) = n - 1
    /\ \A k \in SINGLE_LABELS \cup PROBE_LABELS : actions(k - 1) = Authored(k)
    /\ Cardinality({ L(k) : k \in SINGLE_LABELS }) = Cardinality(SINGLE_LABELS)
    /\ MOD_BTN = MODIFIER_BTN_LABEL - 1
    /\ LIGHT18_IDX = LIGHT_BTN_LABEL - 1
    /\ ARROWS_KEYS = { k - 1 : k \in ARROW_LABELS }
    /\ Cardinality(ARROWS_KEYS) = Cardinality(ARROW_LABELS)
    /\ \A k \in ARROW_LABELS : ARROWS(k - 1) = ARROW_COMBO_LABELS(k)
    /\ \A k \in SINGLE_LABELS \cup PROBE_LABELS :
         (k - 1 \in Buttons /\ AfterDown(k - 1) /\ ~states[k - 1].suppressed_until_up
          /\ (prog = "combo" => in_game)) =>
            /\ (Authored(k).hold_scancode # None =>
                  states[k - 1].hold_keys = Authored(k).hold_scancode)
            /\ states[k - 1].hold_after_long_pending = Authored(k).hold_after_long_scancode

\* The button of index 7 has been pressed and the keys of label 8 are held
C17_Witness ==
    /\ AfterDown(7) /\ 7 \notin comboUsed
    /\ states[7].hold_keys = SINGLE_ACTIONS_1B(8).hold_scancode
    /\ OutKeys = <<<<"down", "Q">>>>

----------------------------------------------------------------------------
(* C18 *)

\* C18: an accepted JOYBUTTONDOWN resets the ButtonState of the button to a
\* fresh idle state before the press is interpreted: the state the handler
\* leaves is one it leaves when it starts from a fresh ButtonState, so
\* nothing of the previous cycle (hold_keys in particular) survives.
C18_FreshOnDown ==
    \A b \in Buttons :
        AfterDown(b) =>
            IF prog = "mapper"
            THEN \E r \in run_down(ButtonState, pressed, b, last.now) : r.s = states[b]
            ELSE \E r \in main_loop_down([states EXCEPT ![b] = ButtonState],
                                         pressed, b, last.now, in_game) :
                    r.st[b] = states[b]

----------------------------------------------------------------------------
(* C19, C20 *)

\* The binding of b declares a holdAfterLongAction
HoldAfterLongBound(b) == actions(b).hold_after_long_scancode # None
\* The key events of trace tr made for button b on the keys of list keys
OnKeys(tr, b, keys) ==
    Pairs(SelectSeq(tr, LAMBDA e : e.b = b /\ e.t \in {"down", "up"}
                                    /\ \E i \in 1..Len(keys) : e.k = keys[i]))
KeysUp(keys) == [i \in 1..Len(keys) |-> <<"up", keys[Len(keys) + 1 - i]>>]

\* C19: the keys of a holdAfterLongAction go down only in a tick at which
\* the button is down and now - down_ms >= LONG_PRESS_MS; in a cycle whose
\* release is handled below the threshold they have never gone down.
C19_HoldOnlyAfterLong ==
    \A b \in Buttons :
        HoldAfterLongBound(b) =>
            LET keys == actions(b).hold_after_long_scancode
            IN  /\ Downs(OnKeys(out, b, keys)) # <<>> =>
                     /\ AfterTick /\ states[b].is_down
                     /\ last.now - states[b].down_ms >= LONG_PRESS_MS
                /\ (AfterUp(b) /\ Duration(b) < LONG_PRESS_MS) =>
                     Downs(SelectSeq(cyc[b], LAMBDA e : \E i \in 1..Len(keys) :
                                                          e[2] = keys[i])) = <<>>

\* A cycle of a holdAfterLong button that went through a tick and was
\* released below the threshold
C19_Witness ==
    \E b \in Buttons :
        /\ HoldAfterLongBound(b) /\ AfterUp(b) /\ ~everDenied
        /\ Duration(b) > 0 /\ Duration(b) < LONG_PRESS_MS

\* C20: the tick that starts a hold after the long-press threshold (its
\* keys go down) leaves suppressed_until_up true and the pending hold
\* cleared; the release of that cycle injects the key-ups of the held keys
\* in reverse order and nothing else (nothing at all when the gate denies
\* the release): no short tap, no long tap, no pulse.
C20_LongHoldSuppresses ==
    \A b \in Buttons :
        HoldAfterLongBound(b) =>
            LET keys == actions(b).hold_after_long_scancode
            IN  /\ (AfterTick /\ Downs(OnKeys(out, b, keys)) # <<>>) =>
                     /\ states[b].suppressed_until_up
                     /\ states[b].hold_after_long_pending = None
                     /\ states[b].hold_keys = keys
                /\ (AfterUp(b) /\ states[b].suppressed_until_up) =>
                     /\ OutKeys \in { <<>>, KeysUp(keys) }
                     /\ ~everDenied => OutKeys = KeysUp(keys)

\* The release of a cycle in which the hold after the threshold had started
C20_Witness ==
    \E b \in Buttons :
        /\ HoldAfterLongBound(b) /\ AfterUp(b) /\ states[b].suppressed_until_up
        /\ ~everDenied /\ OutKeys = KeysUp(actions(b).hold_after_long_scancode)

----------------------------------------------------------------------------
(* C21 *)

\* The binding of b declares a holdAfterLongAction and a shortAction, and no
\* immediate hold
FallThroughBound(b) ==
    /\ HoldAfterLongBound(b) /\ actions(b).short_scancode # None
    /\ actions(b).hold_scancode = None

----------------------------------------------------------------------------
(* C22 *)

\* The key the combo tables give for a press of b, given PressedSet: MOD2
\* is looked at first in the combo loop; "None" if no combo takes the press
ComboTarget(b, prs) ==
    IF prog = "combo" /\ MOD2_BTN_IDX \in prs /\ b \in MOD2_KEYS THEN MOD2_MAP(b)
    ELSE IF MOD_BTN \in prs /\ b \in ARROWS_KEYS THEN ARROWS(b)
    ELSE "None"

\* C22: a press that a combo consumes (its modifier is in PressedSet and the
\* button is a combo target) injects at most the tap of the combo key,
\* starts no hold (hold_keys is left as it was), queues no pending hold and
\* starts no repeat or flash bookkeeping, whatever its binding declares.
C22_ComboFirst ==
    [][ \A b \in Buttons :
          (b \notin phys /\ b \in phys' /\ last'.ok /\ (prog = "combo" => in_game)
           /\ ComboTarget(b, pressed') # "None") =>
             /\ KeyEvents(out') \in { <<>>, TapKeys(<<ComboTarget(b, pressed')>>) }
             /\ states'[b].suppressed_until_up
             /\ states'[b].hold_keys = states[b].hold_keys
             /\ states'[b].hold_after_long_pending = None
             /\ states'[b].repeat_mode = "None"
             /\ states'[b].repeat_every_ms = NoneMs ]_vars

\* Button 8, bound to hold Q, has been pressed with the modifier held: LEFT tapped
C22_Witness ==
    /\ AfterDown(7) /\ HoldBound(7) /\ MOD_BTN \in pressed
    /\ states[7].suppressed_until_up /\ states[7].hold_keys = None
    /\ OutKeys = TapKeys(<<"LEFT">>)

----------------------------------------------------------------------------
(* C23 *)

\* The binding of b declares both a holdAction and a holdAfterLongAction
BothHoldsBound(b) == HoldBound(b) /\ HoldAfterLongBound(b)

\* C23: per button, hold_keys is unset or is the key list of exactly one of
\* holdAction and holdAfterLongAction; and for a button whose binding
\* declares both, the pressed holdAction keeps the tick from starting the
\* other hold: the keys of the holdAfterLongAction never go down.
C23_OneHoldActive ==
    \A b \in Buttons :
        /\ states[b].hold_keys \in
              { None, actions(b).hold_scancode, actions(b).hold_after_long_scancode }
        /\ BothHoldsBound(b) =>
              /\ Downs(OnKeys(out, b, actions(b).hold_after_long_scancode)) = <<>>
              /\ states[b].hold_keys \in { None, actions(b).hold_scancode }

\* A button bound to both holds is held past the threshold, through a tick,
\* with the keys of its holdAction held and the other hold still pending
C23_Witness ==
    \E b \in Buttons :
        /\ BothHoldsBound(b) /\ AfterTick /\ states[b].is_down
        /\ last.now - states[b].down_ms >= LONG_PRESS_MS
        /\ states[b].hold_keys = actions(b).hold_scancode
        /\ states[b].hold_after_long_pending # None

----------------------------------------------------------------------------
(* C24 *)

\* The binding of b declares a long action and neither a hold nor a repeat
LongBound(b) ==
    /\ actions(b).long_scancode # None
    /\ actions(b).hold_scancode = None /\ actions(b).hold_after_long_scancode = None

\* C24: the threshold comparisons are inclusive. With output allowed, a
\* release with duration exactly LONG_PRESS_MS taps the long action; a tick
\* with elapsed time exactly LONG_PRESS_MS starts a pending hold (hold_keys
\* is set to its keys); and a tick with elapsed time exactly LONG_PRESS_MS
\* fires the first repeat unit of a repeatAfterLong button (ticks of an
\* iteration that ran to its end).
C24_InclusiveThreshold ==
    \A b \in Buttons :
        /\ (LongBound(b) /\ AfterUp(b) /\ ~everDenied /\ Duration(b) = LONG_PRESS_MS) =>
              OutKeys = TapKeys(actions(b).long_scancode)
        /\ (HoldAfterLongBound(b) /\ ~HoldBound(b) /\ AfterTick /\ ~everDenied /\ running
             /\ states[b].is_down /\ last.now - states[b].down_ms = LONG_PRESS_MS) =>
              states[b].hold_keys = actions(b).hold_after_long_scancode
        /\ (PulseBound(b) /\ AfterTick /\ ~everDenied /\ running
             /\ states[b].is_down /\ last.now - states[b].down_ms = LONG_PRESS_MS) =>
              /\ units[b] = 1
              /\ \E i \in 1..Len(out) : out[i].t = "unit" /\ out[i].b = b

\* A button with a long action released with duration exactly LONG_PRESS_MS
C24_Witness ==
    \E b \in Buttons :
        /\ LongBound(b) /\ AfterUp(b) /\ ~everDenied /\ Duration(b) = LONG_PRESS_MS
        /\ OutKeys = TapKeys(actions(b).long_scancode)

----------------------------------------------------------------------------
(* C25 *)

\* An unsuppressed release of b handled with output allowed, b being neither
\* bound to holdAction nor the flash button of the combo loop (their releases
\* inject key events of their own)
PlainRelease(b) ==
    /\ AfterUp(b) /\ ~everDenied /\ ~states[b].suppressed_until_up
    /\ ~HoldBound(b) /\ ~(prog = "combo" /\ b = LIGHT18_IDX)
PulseKeys(k) == TapKeys(<<k>>) \o TapKeys(<<k>>)

\* C25 as stated: on an unsuppressed release, if duration >= LONG_PRESS_MS
\* and a long action is declared the long action is tapped; otherwise, if a
\* shortAction is declared it is tapped; otherwise, if a short-pulse key is
\* declared one pulse is performed.
C25_AsStated ==
    \A b \in Buttons :
        PlainRelease(b) =>
            LET cfg == actions(b)
            IN  IF Duration(b) >= LONG_PRESS_MS /\ cfg.long_scancode # None
                THEN OutKeys = TapKeys(cfg.long_scancode)
                ELSE IF cfg.short_scancode # None
                THEN OutKeys = TapKeys(cfg.short_scancode)
                ELSE cfg.short_pulse_scancode # None =>
                        OutKeys = PulseKeys(cfg.short_pulse_scancode[1])

\* C25: on an unsuppressed release the duration is classified first. At or
\* over LONG_PRESS_MS the long action is tapped when one is declared and
\* nothing is emitted otherwise; below it the shortAction is tapped when one
\* is declared, otherwise one pulse is performed when a short-pulse key is
\* declared, otherwise nothing is emitted.
C25_ReleaseOrder ==
    \A b \in Buttons :
        PlainRelease(b) =>
            LET cfg == actions(b)
            IN  IF Duration(b) >= LONG_PRESS_MS
                THEN OutKeys = (IF cfg.long_scancode # None
                                THEN TapKeys(cfg.long_scancode) ELSE <<>>)
                ELSE IF cfg.short_scancode # None
                THEN OutKeys = TapKeys(cfg.short_scancode)
                ELSE IF cfg.short_pulse_scancode # None
                THEN OutKeys = PulseKeys(cfg.short_pulse_scancode[1])
                ELSE OutKeys = <<>>

\* A binding with both a shortAction and a short-pulse key released below the
\* threshold: the short action alone is tapped
C25_Witness ==
    \E b \in Buttons :
        /\ PlainRelease(b) /\ Duration(b) < LONG_PRESS_MS
        /\ actions(b).short_scancode # None /\ actions(b).short_pulse_scancode # None
        /\ OutKeys = TapKeys(actions(b).short_scancode)

----------------------------------------------------------------------------
(* C26 *)

\* C26: after each handled event PressedSet is exactly the set of the
\* buttons that are physically down, so that a press which taps a combo key
\* is handled while the modifier of the combo is physically held.
C26_PressedIsPhysical ==
    /\ last.act \in {"down", "up"} => pressed = phys
    /\ \A b \in Buttons :
          (AfterDown(b) /\ ComboTarget(b, pressed \ {b}) # "None"
           /\ OutKeys = TapKeys(<<ComboTarget(b, pressed \ {b})>>)) =>
              \E m \in phys \ {b} : <<m, b>> \in ComboPairs

----------------------------------------------------------------------------
(* C27 *)

\* C27: handling the release of a button stops its hold and its repeat
\* bookkeeping. When the release has been handled hold_keys is unset and
\* repeat_mode is None for the button, and no tick fires a repeat unit for a
\* button that is up.
C27_ReleaseStops ==
    \A b \in Buttons :
        /\ AfterUp(b) => (states[b].hold_keys = None /\ states[b].repeat_mode = "None")
        /\ (AfterTick /\ b \notin phys) => UnitsOf(out, b) = 0

----------------------------------------------------------------------------
(* C28 *)

\* C28: a tick of the iteration with timestamp now fires at most one repeat
\* unit of a button, and fires it only when the button's deadline is unset
\* or now is at or above it; it then sets the deadline to now + the repeat
\* period, now being the timestamp sampled at the start of the iteration;
\* and a tick that fires no unit of the button leaves its deadline alone.
\* Successive units of a cycle are therefore at least one period apart.
C28_RepeatDeadline ==
    [][\A b \in Buttons :
         last'.act = "tick" =>
            IF UnitsOf(out', b) > 0
            THEN /\ UnitsOf(out', b) = 1
                 /\ states[b].next_repeat_ms = NoneMs \/ now >= states[b].next_repeat_ms
                 /\ states'[b].next_repeat_ms = now + states[b].repeat_every_ms
                 /\ states'[b].repeat_every_ms = PULSE_PERIOD_MS
                 /\ last'.now = now
            ELSE states'[b].next_repeat_ms = states[b].next_repeat_ms]_vars

\* The second repeat unit of a press cycle has just fired, one period or more
\* after the first
C28_Witness ==
    \E b \in Buttons :
        /\ AfterTick /\ b \in Held /\ units[b] >= 2 /\ UnitsOf(out, b) = 1
        /\ states[b].next_repeat_ms = last.now + PULSE_PERIOD_MS
        /\ last.now - states[b].down_ms >= PULSE_PERIOD_MS

----------------------------------------------------------------------------
(* C29 *)

\* The keys of the holdAfterLongAction of b that went down in its cycle
PendingDowns(b) ==
    IF HoldAfterLongBound(b)
    THEN SelectSeq(cyc[b], LAMBDA e : e[1] = "down"
                     /\ \E i \in 1..Len(actions(b).hold_after_long_scancode) :
                           e[2] = actions(b).hold_after_long_scancode[i])
    ELSE <<>>

\* C29: the events of an iteration are handled before its tick phase and
\* with the same timestamp. In the tick phase of the iteration that handled
\* the press of a button (down_ms is the timestamp of the tick), run to its
\* end with the button still down, a repeat started without repeatAfterLong
\* fires its first unit, and a repeat with repeatAfterLong and a pending
\* hold fire nothing; a release handled in the iteration of its press has
\* duration 0, and the cycle has fired no repeat unit and has put down no
\* key of a holdAfterLongAction.
C29_EventsBeforeTicks ==
    \A b \in Buttons :
        /\ (AfterTick /\ running /\ states[b].is_down /\ states[b].down_ms = last.now) =>
              /\ (states[b].repeat_mode # "None" /\ ~states[b].repeat_after_long) =>
                    (UnitsOf(out, b) = 1 /\ units[b] = 1)
              /\ (states[b].repeat_mode = "None" \/ states[b].repeat_after_long) =>
                    (UnitsOf(out, b) = 0 /\ units[b] = 0)
              /\ PendingDowns(b) = <<>>
        /\ (AfterUp(b) /\ states[b].down_ms = last.now) =>
              /\ Duration(b) = 0
              /\ units[b] = 0
              /\ PendingDowns(b) = <<>>

\* The flasher fired its first unit in the tick phase of the iteration of its press
C29_Witness ==
    \E b \in Buttons :
        /\ AfterTick /\ running /\ states[b].is_down /\ states[b].down_ms = last.now
        /\ states[b].repeat_mode # "None" /\ ~states[b].repeat_after_long
        /\ UnitsOf(out, b) = 1

----------------------------------------------------------------------------
(* C30 *)

\* Trace tr has a key-up of one of the keys of list keys
UpOf(tr, keys) ==
    \E i \in 1..Len(tr) : tr[i].t = "up" /\ \E j \in 1..Len(keys) : tr[i].k = keys[j]

\* C30: a hold is ended only by the handling of the release of its button.
\* While hold_keys of a button is set, every step other than the handling
\* of that button's release (a tick, the press or the release of another
\* button, a combo, the passing of time) leaves hold_keys as it is and
\* injects no key-up of one of those keys.
C30_HoldEndsOnRelease ==
    [][\A b \in Buttons :
         (states[b].hold_keys # None /\ ~(last'.act = "up" /\ last'.b = b)) =>
            /\ states'[b].hold_keys = states[b].hold_keys
            /\ ~UpOf(out', states[b].hold_keys)]_vars

\* A hold that has lasted LONG_PRESS_MS or more, its button still down, after a tick
C30_Witness ==
    \E b \in Buttons :
        /\ AfterTick /\ b \in Held /\ states[b].is_down
        /\ states[b].hold_keys # None
        /\ last.now - states[b].down_ms >= LONG_PRESS_MS
        /\ Count(cyc[b], <<"down", states[b].hold_keys[1]>>) = 1
        /\ Ups(cyc[b]) = <<>>

----------------------------------------------------------------------------
(* C31 *)

\* C31: in the combo loop flash_in_on_phase is false whenever an event is
\* handled (the flag is set and cleared inside one tick), the toggle count
\* is even, and the handling of the release of the flash button emits no
\* key event: the corrective OFF tap is never emitted.
C31_NoCorrectiveTap ==
    prog = "combo" =>
        /\ \A b \in Buttons : ~states[b].flash_in_on_phase
        /\ states[LIGHT18_IDX].flash_toggle_count % 2 = 0
        /\ (last.act = "up" /\ last.b = LIGHT18_IDX) => OutKeys = <<>>

\* The release of the flash button handled in game after the flasher has fired
C31_Witness ==
    /\ prog = "combo" /\ AfterUp(LIGHT18_IDX) /\ in_game
    /\ units[LIGHT18_IDX] >= 1
    /\ states[LIGHT18_IDX].flash_toggle_count >= 2
    /\ OutKeys = <<>>

----------------------------------------------------------------------------
(* C32 *)

\* C32: in the combo loop the release that follows a press rejected by the
\* debounce filter emits nothing: no key event and no command.
C32_RejectedCycleSilent ==
    (prog = "combo" /\ last.act = "up" /\ ~last.ok) =>
        (OutKeys = <<>> /\ OutCmds = <<>>)

----------------------------------------------------------------------------
(* C33 *)

\* C33: with output allowed throughout, when the release of a button bound
\* to shortAction and holdAfterLongAction has been handled, the release has
\* tapped the short action or the keys of the hold went down earlier in the
\* cycle: no cycle is left without a key event.
C33_CycleHasOutcome ==
    \A b \in Buttons :
        (FallThroughBound(b) /\ AfterUp(b) /\ ~everDenied) =>
            \/ OutKeys = TapKeys(actions(b).short_scancode)
            \/ PendingDowns(b) # <<>>

----------------------------------------------------------------------------
(* C34 *)

\* C34: at the end of every loop iteration, a button whose hold_keys is set
\* is down: no button that is up still records held keys.
C34_HoldImpliesDown ==
    AfterTick => \A b \in Buttons : states[b].hold_keys # None => states[b].is_down

----------------------------------------------------------------------------
(* C35 *)

\* The number of key-downs of key k less the number of its key-ups among the
\* first n entries of a stream of <<"down" | "up", key>> pairs
Balance(seq, k, n) ==
    Len(SelectSeq(SubSeq(seq, 1, n), LAMBDA e : e = <<"down", k>>))
    - Len(SelectSeq(SubSeq(seq, 1, n), LAMBDA e : e = <<"up", k>>))

\* C35: when a release has been handled and every button is up, no injected
\* key is left down: in the key events of the cycle just ended the downs and
\* ups of each key alternate, starting with a down and ending with an up.
C35_NoKeyLeftDown ==
    \A b \in Buttons :
        (last.act = "up" /\ last.b = b /\ phys = {}) =>
            \A i \in 1..Len(cyc[b]) :
                /\ \A n \in 1..Len(cyc[b]) : Balance(cyc[b], cyc[b][i][2], n) \in {0, 1}
                /\ Balance(cyc[b], cyc[b][i][2], Len(cyc[b])) = 0

----------------------------------------------------------------------------
(* C36 *)

\* The modifier of the combo that a press of b handled in the combo loop with
\* PressedSet prs takes, -1 when it takes none
ComboModifier(b, prs) ==
    IF MOD2_BTN_IDX \in prs /\ b \in MOD2_KEYS THEN MOD2_BTN_IDX
    ELSE IF MOD_BTN \in prs /\ b \in ARROWS_KEYS THEN MOD_BTN
    ELSE -1

\* C36: the handling of a press or a release of button b changes only the
\* ButtonState of b, the membership of b in PressedSet and, in the combo
\* loop, the debounce timestamp of b. The one exception is a combo press
\* in the combo loop, which also sets suppressed_until_up of the combo's
\* modifier and changes no other field of any other button.
C36_EventFrame ==
    [][\A b \in Buttons :
         (last'.act \in {"down", "up"} /\ last'.b = b) =>
            LET m == IF prog = "combo" /\ last'.act = "down" /\ last'.ok /\ in_game
                     THEN ComboModifier(b, pressed') ELSE -1
            IN  /\ pressed' \ {b} = pressed \ {b}
                /\ \A x \in Buttons \ {b} : last_down_ms'[x] = last_down_ms[x]
                /\ prog = "mapper" => last_down_ms' = last_down_ms
                /\ \A x \in Buttons \ {b} :
                      states'[x] = IF x = m
                                   THEN [states[x] EXCEPT !.suppressed_until_up = TRUE]
                                   ELSE states[x]]_vars

\* A combo press of the combo loop has tapped its key and marked the held modifier
C36_Witness ==
    \E b \in Buttons :
        /\ prog = "combo" /\ AfterDown(b) /\ ComboModifier(b, pressed) # -1
        /\ states[ComboModifier(b, pressed)].suppressed_until_up
        /\ states[ComboModifier(b, pressed)].is_down
        /\ OutKeys = TapKeys(<<ComboTarget(b, pressed)>>)

----------------------------------------------------------------------------
(* C37 *)

====
